---------------------------- MODULE Spec2Model ----------------------------
(***************************************************************************)
(* A model of nasdaquire.py: QueryBase / MinuteQuery objects, the request  *)
(* URL and output identifier they derive, download_data with its          *)
(* filesystem and network steps, the response decoder, and                *)
(* get_pandas_dataframe.                                                   *)
(*                                                                         *)
(* Byte strings are sequences of one-character strings.  Text that the    *)
(* code only concatenates and compares (URLs, file names) is a TLA+       *)
(* string.  Optional values (None in the source) are sequences of length  *)
(* at most one.                                                            *)
(***************************************************************************)
EXTENDS Integers, Sequences, FiniteSets, TLC

VARIABLES
    now,        \* the value of time.time(), in half-day ticks
    dirExists,  \* whether the data directory exists on disk
    disk,       \* the files of the data directory: path -> bytes
    obj,        \* the attributes of each query object
    call,       \* each query's position in its running call, with the call's locals
    obs         \* what an observer has recorded of each query's calls

vars == <<now, dirExists, disk, obj, call, obs>>

Queries == {"q1", "q2"}

----------------------------------------------------------------------------
(* Bounds of the model.                                                    *)

\* the last clock tick (two ticks make a day)
MaxNow == 2
\* the longest raw payload the decoder specification feeds the decoder
MaxRawLen == 4
\* the longest caller-supplied symbol of the build specification
MaxSymLen == 2
\* download_data calls per query
MaxFetches == 2
\* get_pandas_dataframe calls per query
MaxGets == 3

----------------------------------------------------------------------------
(* Text helpers: strftime's zero-padded fields and str.upper.              *)

Digit(n) == <<"0", "1", "2", "3", "4", "5", "6", "7", "8", "9">>[n + 1]

Pad2(n) == Digit((n \div 10) % 10) \o Digit(n % 10)

\* time.strftime('%H%M')
StrfHHMM(t) == Pad2(t.hour) \o Pad2(t.minute)

\* the date and the time of day of clock tick n
DayOf(n) == 1 + (n \div 2)
HourOf(n) == 12 * (n % 2)

\* datetime.fromtimestamp(n).strftime('%Y-%m-%d')
StrfDate(n) == "2018-06-" \o Pad2(DayOf(n))

\* datetime.fromtimestamp(n).strftime('%Y-%m-%d_%H-%M-%S')
StrfDateTime(n) == StrfDate(n) \o "_" \o Pad2(HourOf(n)) \o "-00-00"

\* str.upper on one character
UpperChar(c) ==
    CASE c = "a" -> "A"
      [] c = "b" -> "B"
      [] c = "l" -> "L"
      [] c = "p" -> "P"
      [] c = "m" -> "M"
      [] c = "s" -> "S"
      [] c = "f" -> "F"
      [] c = "t" -> "T"
      [] OTHER -> c

RECURSIVE AsTyped(_)
\* the symbol as the caller typed it, not upper-cased
AsTyped(cs) ==
    IF cs = <<>> THEN "" ELSE Head(cs) \o AsTyped(Tail(cs))

RECURSIVE Upper(_)
\* str.upper: the characters of the symbol, upper-cased, as one string
Upper(cs) ==
    IF cs = <<>> THEN "" ELSE UpperChar(Head(cs)) \o Upper(Tail(cs))

Time(h, m, s) == [hour |-> h, minute |-> m, second |-> s]

\* a signed difference in place of the order-independent one
time_delta_signed(t1, t2) ==
    (t2.hour * 60 * 60 + t2.minute * 60 + t2.second)
        - (t1.hour * 60 * 60 + t1.minute * 60 + t1.second)

Max2(a, b) == IF a >= b THEN a ELSE b
Min2(a, b) == IF a <= b THEN a ELSE b

time_delta_seconds(t1, t2) ==
    LET t1_s == t1.hour * 60 * 60 + t1.minute * 60 + t1.second
        t2_s == t2.hour * 60 * 60 + t2.minute * 60 + t2.second
    IN  Max2(t1_s, t2_s) - Min2(t1_s, t2_s)

----------------------------------------------------------------------------
(* The request URL and the output identifier of MinuteQuery.__init__.      *)

REQUEST_ROOT == "https://charting.nasdaq.com/ext/charts.dll?"

subroot_str ==
    "2-1-17-0-0,0,0,0,0|0,0,0,0,0|0,0,0,0,0|0,0,0,0,0|0,0,0,0,0|0,0,0,0,0|0,0,0,0,0|0,0,0,0,0|0,0,"
    \o "0,0,0|0,0,0,0,0|0,0,0,0,0|0,0,0,0,0|0,0,0,0,0|0,0,0,0,0|0,0,0,0,0|0,0,0,0,0|0,0,0,0,0|0,0,0,0,"
    \o "0|0,0,0,0,0|0,0,0,0,0|0,0,0,0,0|0,0,0,0,0|0,0,0,0,0|0,0,0,0,0|0,0,0,0,0|0,0,0,0,0|0,0,0,0,0|0,"
    \o "0,0,0,0|0,0,0,0,0|0,0,0,0,0|0,0,0,0,0|0,0,0,0,0|0,0,0,0,0|0,0,0,0,0|0,0,0,0,0|0,0,0,0,0|0,0,0,"
    \o "0,0|0,0,0,0,0|0,0,0,0,0|0,0,0,0,0-0"

postamble_str == "-BG=FFFFFF-BT=0-&WD=635-HT=395---XXCL-"

\* self.request_url, from the upper-cased symbol and the two times
RequestUrl(sym, st, en) ==
    REQUEST_ROOT \o subroot_str \o StrfHHMM(st) \o StrfHHMM(en)
        \o "-03NA000000" \o sym \o postamble_str

\* self.output_filename, from the clock and the two times
OutputFilename(n, st, en) ==
    StrfDate(n) \o "_" \o StrfHHMM(st) \o StrfHHMM(en)

\* os.path.dirname(os.path.realpath(__file__)) + "\\..\\data\\"
Root == "/pkg/nasdaquire" \o "\\..\\data\\"

\* self.downloaded_file, as download_data names it
DownloadedFile(o, n) ==
    IF Len(o.output_filename) < 3
    THEN Root \o o.symbol \o "_" \o StrfDateTime(n) \o ".csv"
    ELSE Root \o o.symbol \o "_" \o o.output_filename \o ".csv"

----------------------------------------------------------------------------
(* The response decoder of download_data.                                  *)

IsPrefix(p, s) == Len(p) <= Len(s) /\ SubSeq(s, 1, Len(p)) = p

RECURSIVE Replace(_, _, _)
\* bytes.replace(old, new): every non-overlapping occurrence, left to right
Replace(s, old, new) ==
    IF s = <<>> THEN <<>>
    ELSE IF IsPrefix(old, s)
         THEN new \o Replace(SubSeq(s, Len(old) + 1, Len(s)), old, new)
         ELSE <<Head(s)>> \o Replace(Tail(s), old, new)

StripCommas(s) == Replace(s, <<",">>, <<>>)
\* bytes.replace with its two patterns swapped
CrToTabCr(s) == Replace(s, <<"\r">>, <<"\t", "\r">>)

TabCrToCr(s) == Replace(s, <<"\t", "\r">>, <<"\r">>)
TabsToCommas(s) == Replace(s, <<"\t">>, <<",">>)

\* the three replacements with the tabs promoted before the commas go
DecodeTabsFirst(s) == StripCommas(TabsToCommas(TabCrToCr(s)))

\* bts, from the bytes s read off the response
Decode(s) == TabsToCommas(TabCrToCr(StripCommas(s)))

----------------------------------------------------------------------------
(* pandas.read_csv on the retained buffer, as get_pandas_dataframe uses    *)
(* it: lines end at \r\n, \n or \r, blank lines are skipped, the first     *)
(* line names the columns, and the columns named in parse_dates must be    *)
(* among them.                                                             *)

RECURSIVE SplitOn(_, _)
\* the pieces of s between occurrences of sep
SplitOn(s, sep) ==
    IF s = <<>> THEN <<<<>>>>
    ELSE LET rest == SplitOn(Tail(s), sep)
         IN  IF Head(s) = sep
             THEN <<<<>>>> \o rest
             ELSE <<<<Head(s)>> \o Head(rest)>> \o Tail(rest)

NotBlank(line) == line # <<>>

NonEmpty(ss) == SelectSeq(ss, NotBlank)

\* the non-blank lines of a byte string
Lines(b) ==
    NonEmpty(SplitOn(Replace(Replace(b, <<"\r", "\n">>, <<"\n">>),
                             <<"\r">>, <<"\n">>), "\n"))

\* each line as its sequence of fields
Records(b) == [i \in 1..Len(Lines(b)) |-> SplitOn(Lines(b)[i], ",")]

TimeColumn == <<"T", "i", "m", "e">>

\* the rows as parsed, their order kept
SameOrder(s) == s

Reverse(s) == [i \in 1..Len(s) |-> s[Len(s) + 1 - i]]

\* what pd.read_csv(buf, parse_dates=['Time']) followed by the reindex
\* gives for the bytes b left to read: an error, or the table's rows
ReadCsvReversed(b) ==
    LET recs == Records(b)
    IN  IF recs = <<>>
        THEN [err |-> "EmptyDataError", rows |-> <<>>]
        ELSE IF \A i \in 1..Len(recs[1]) : recs[1][i] # TimeColumn
        THEN [err |-> "ValueError", rows |-> <<>>]
        ELSE [err |-> "none", rows |-> Reverse(Tail(recs))]

----------------------------------------------------------------------------
(* State.                                                                  *)

NoObject ==
    [class |-> "none", symbol |-> "", start_time |-> <<>>, end_time |-> <<>>,
     request_url |-> "", output_filename |-> "", downloaded_file |-> "",
     file_saved |-> FALSE, file_buffer |-> <<>>]

NoCall == [pc |-> "new", s |-> <<>>]

NoObs ==
    [args |-> <<>>, err |-> "none", fetches |-> 0, completed |-> 0,
     netCalls |-> 0, raw |-> <<>>, preFile |-> <<>>, gets |-> 0, getErr |-> "none",
     table |-> <<>>, firstTable |-> <<>>]

Init ==
    /\ now = 0
    /\ dirExists \in BOOLEAN
    /\ disk = <<>>
    /\ obj = [q \in Queries |-> NoObject]
    /\ call = [q \in Queries |-> NoCall]
    /\ obs = [q \in Queries |-> NoObs]

\* the file at path p, if any
FileAt(p) == IF p \in DOMAIN disk THEN <<disk[p]>> ELSE <<>>

\* the disk with bytes b written at path p
WriteFile(p, b) == [x \in (DOMAIN disk) \cup {p} |-> IF x = p THEN b ELSE disk[x]]

\* an exception leaves the running call
Raise(q, e) ==
    /\ call' = [call EXCEPT ![q] = [pc |-> "idle", s |-> <<>>]]
    /\ obs' = [obs EXCEPT ![q].err = e]

----------------------------------------------------------------------------
(* The clock.                                                              *)

Tick ==
    /\ now < MaxNow
    /\ now' = now + 1
    /\ UNCHANGED <<dirExists, disk, obj, call, obs>>

----------------------------------------------------------------------------
(* Construction.                                                           *)

\* QueryBase.__init__(symbol)
QueryBaseFields(sym) ==
    [NoObject EXCEPT !.class = "QueryBase", !.symbol = Upper(sym)]

QueryBaseInit(q, sym) ==
    /\ call[q].pc = "new"
    /\ obj' = [obj EXCEPT ![q] = QueryBaseFields(sym)]
    /\ call' = [call EXCEPT ![q].pc = "idle"]
    /\ UNCHANGED <<now, dirExists, disk, obs>>

\* a child class or a caller assigns the request URL of a base query
SetRequestUrl(q, url) ==
    /\ call[q].pc = "idle"
    /\ obj[q].class = "QueryBase"
    /\ obs[q].fetches = 0
    /\ obj[q].request_url # url
    /\ obj' = [obj EXCEPT ![q].request_url = url]
    /\ UNCHANGED <<now, dirExists, disk, call, obs>>

\* the range check of MinuteQuery.__init__
RangeRejected(st, en) == time_delta_seconds(st, en) <= 0

\* MinuteQuery.__init__(symbol, start_time, end_time), up to its call of
\* download_data
MinuteQueryInit(q, sym, st, en) ==
    /\ call[q].pc = "new"
    /\ IF RangeRejected(st, en)
       THEN /\ obj' = [obj EXCEPT ![q] =
                          [QueryBaseFields(sym) EXCEPT !.class = "MinuteQuery"]]
            /\ call' = [call EXCEPT ![q].pc = "idle"]
            /\ obs' = [obs EXCEPT
                          ![q].args = <<[symbol |-> sym, start |-> st,
                                         end |-> en, at |-> now]>>,
                          ![q].err = "RuntimeError"]
       ELSE /\ obj' = [obj EXCEPT ![q] =
                          [QueryBaseFields(sym) EXCEPT
                              !.class = "MinuteQuery",
                              !.start_time = <<st>>,
                              !.end_time = <<en>>,
                              !.request_url = RequestUrl(Upper(sym), st, en),
                              !.output_filename = OutputFilename(now, st, en)]]
            /\ call' = [call EXCEPT ![q].pc = "L119"]
            /\ obs' = [obs EXCEPT
                          ![q].args = <<[symbol |-> sym, start |-> st,
                                         end |-> en, at |-> now]>>,
                          ![q].fetches = 1]
    /\ UNCHANGED <<now, dirExists, disk>>

----------------------------------------------------------------------------
(* download_data, one action per step that touches the network, the disk   *)
(* or the object.  call[q].pc names the source line the call is at.        *)

\* a caller calls download_data on a constructed query
DownloadDataCall(q) ==
    /\ call[q].pc = "idle"
    /\ obj[q].class # "none"
    /\ obs[q].fetches < MaxFetches
    /\ call' = [call EXCEPT ![q].pc = "L119"]
    /\ obs' = [obs EXCEPT ![q].fetches = @ + 1, ![q].err = "none",
                          ![q].preFile = <<>>, ![q].gets = 0,
                          ![q].getErr = "none",
                          ![q].table = <<>>, ![q].firstTable = <<>>]
    /\ UNCHANGED <<now, dirExists, disk, obj>>

\* the floor one character lower
UrlTooShort9(url) == Len(url) < 9

\* the sanity floor on the request URL
UrlTooShort(url) == Len(url) < 10

\* lines 119-120
CheckUrl(q) ==
    /\ call[q].pc = "L119"
    /\ IF UrlTooShort(obj[q].request_url)
       THEN Raise(q, "ValueError")
       ELSE /\ call' = [call EXCEPT ![q].pc = "L124"]
            /\ UNCHANGED obs
    /\ UNCHANGED <<now, dirExists, disk, obj>>

\* line 124: os.path.exists(root)
CheckRoot(q) ==
    /\ call[q].pc = "L124"
    /\ call' = [call EXCEPT ![q].pc = IF dirExists THEN "L127" ELSE "L125"]
    /\ UNCHANGED <<now, dirExists, disk, obj, obs>>

\* line 125: os.makedirs(root), which raises when the directory is there
MakeDirs(q) ==
    /\ call[q].pc = "L125"
    /\ IF dirExists
       THEN /\ Raise(q, "FileExistsError")
            /\ UNCHANGED dirExists
       ELSE /\ dirExists' = TRUE
            /\ call' = [call EXCEPT ![q].pc = "L127"]
            /\ UNCHANGED obs
    /\ UNCHANGED <<now, disk, obj>>

\* lines 127-131
SetDownloadedFile(q) ==
    /\ call[q].pc = "L127"
    /\ obj' = [obj EXCEPT ![q].downloaded_file = DownloadedFile(obj[q], now)]
    /\ call' = [call EXCEPT ![q].pc = "L133"]
    /\ obs' = [obs EXCEPT ![q].preFile = <<FileAt(DownloadedFile(obj[q], now))>>]
    /\ UNCHANGED <<now, dirExists, disk>>

\* line 133, first context manager: urllib.request.urlopen(self.request_url)
UrlOpen(q) ==
    /\ call[q].pc = "L133"
    /\ \E ok \in BOOLEAN :
          IF ok
          THEN /\ call' = [call EXCEPT ![q].pc = "L133open"]
               /\ obs' = [obs EXCEPT ![q].netCalls = @ + 1]
          ELSE /\ call' = [call EXCEPT ![q] = [pc |-> "idle", s |-> <<>>]]
               /\ obs' = [obs EXCEPT ![q].netCalls = @ + 1, ![q].err = "URLError"]
    /\ UNCHANGED <<now, dirExists, disk, obj>>

\* line 133, second context manager: open(self.downloaded_file, 'wb')
\* creates the file, or truncates the one that is there
OpenOutFile(q) ==
    /\ call[q].pc = "L133open"
    /\ IF dirExists
       THEN /\ disk' = WriteFile(obj[q].downloaded_file, <<>>)
            /\ call' = [call EXCEPT ![q].pc = "L134"]
            /\ UNCHANGED obs
       ELSE /\ Raise(q, "FileNotFoundError")
            /\ UNCHANGED disk
    /\ UNCHANGED <<now, dirExists, obj>>

\* line 134: response.fp.read() gives the payload, or the transfer fails
\* and the with statement closes the (empty) output file on the way out
ReadResponse(q, payloads) ==
    /\ call[q].pc = "L134"
    /\ \E ok \in BOOLEAN :
          IF ok
          THEN \E raw \in payloads :
                  /\ call' = [call EXCEPT ![q] = [pc |-> "L135", s |-> <<raw>>]]
                  /\ obs' = [obs EXCEPT ![q].raw = <<raw>>]
          ELSE Raise(q, "ConnectionError")
    /\ UNCHANGED <<now, dirExists, disk, obj>>

\* io.BytesIO(bts): the bytes with a read position
BytesIO(b) == [data |-> b, pos |-> 0]

\* lines 135-138: decode, and retain the result in memory
DecodeResponse(q) ==
    /\ call[q].pc = "L135"
    /\ obj' = [obj EXCEPT ![q].file_buffer = <<BytesIO(Decode(call[q].s[1]))>>]
    /\ call' = [call EXCEPT ![q].pc = "L139"]
    /\ UNCHANGED <<now, dirExists, disk, obs>>

\* lines 139-140: out_file.write(bts); out_file.close(), which the disk
\* may refuse (no space left), leaving the file as open() made it
WriteOutFile(q) ==
    /\ call[q].pc = "L139"
    /\ \E ok \in BOOLEAN :
          IF ok
          THEN /\ disk' = WriteFile(obj[q].downloaded_file, Decode(call[q].s[1]))
               /\ call' = [call EXCEPT ![q].pc = "L142"]
               /\ UNCHANGED obs
          ELSE /\ Raise(q, "OSError")
               /\ UNCHANGED disk
    /\ UNCHANGED <<now, dirExists, obj>>

\* lines 142-143: the read-back
CheckSaved(q) ==
    /\ call[q].pc = "L142"
    /\ IF obj[q].downloaded_file \in DOMAIN disk
       THEN /\ call' = [call EXCEPT ![q].pc = "L145"]
            /\ UNCHANGED obs
       ELSE Raise(q, "OSError")
    /\ UNCHANGED <<now, dirExists, disk, obj>>

\* lines 145-147: the call returns
SetSaved(q) ==
    /\ call[q].pc = "L145"
    /\ obj' = [obj EXCEPT ![q].file_saved = TRUE]
    /\ call' = [call EXCEPT ![q] = [pc |-> "idle", s |-> <<>>]]
    /\ obs' = [obs EXCEPT ![q].completed = @ + 1]
    /\ UNCHANGED <<now, dirExists, disk>>

----------------------------------------------------------------------------
(* get_pandas_dataframe.                                                   *)

\* BytesIO.read(): the bytes from the read position on
Unread(buf) == SubSeq(buf.data, buf.pos + 1, Len(buf.data))

\* the buffer after read_csv has read it to its end
Consumed(buf) == [buf EXCEPT !.pos = Len(buf.data)]

\* a guard on the buffer in place of the flag
NoBuffer(o) == o.file_buffer = <<>>

\* the guard of line 190
NotFetched(o) == ~ o.file_saved

\* lines 188-195
GetPandasDataframe(q) ==
    /\ call[q].pc = "idle"
    /\ obj[q].class = "MinuteQuery"
    /\ obs[q].gets < MaxGets
    /\ IF NotFetched(obj[q])
       THEN /\ obs' = [obs EXCEPT ![q].gets = @ + 1, ![q].getErr = "RuntimeError",
                                  ![q].table = <<>>]
            /\ UNCHANGED obj
       ELSE LET buf == obj[q].file_buffer[1]
                res == ReadCsvReversed(Unread(buf))
                tab == IF res.err = "none" THEN <<res.rows>> ELSE <<>>
            IN  /\ obj' = [obj EXCEPT ![q].file_buffer = <<Consumed(buf)>>]
                /\ obs' = [obs EXCEPT
                              ![q].gets = @ + 1,
                              ![q].getErr = res.err,
                              ![q].table = tab,
                              ![q].firstTable = IF obs[q].gets = 0 THEN tab ELSE @]
    /\ UNCHANGED <<now, dirExists, disk, call>>

----------------------------------------------------------------------------
(* Inputs.                                                                 *)

T0930 == Time(9, 30, 0)
T0930s == Time(9, 30, 7)
T1000 == Time(10, 0, 0)

AAPL == <<"a", "a", "p", "l">>
MSFT == <<"M", "S", "F", "T">>

\* the rows of a response, as the endpoint sends them: tab-separated fields,
\* a tab before the line break, commas as thousands separators
RawHeader == <<"T", "i", "m", "e", "\t", "V", "\t", "\r", "\n">>
RawRow3 == <<"3", "\t", "1", ",", "2", "\r", "\n">>
RawRow2 == <<"2", "\t", "5", "\r", "\n">>
RawRow1 == <<"1", "\t", "6", "\r", "\n">>

PayloadTable == RawHeader \o RawRow3 \o RawRow2 \o RawRow1
PayloadEmpty == <<>>
PayloadHtml == <<"<", "h", ">", "\r", "\n">>

Payloads == {PayloadTable, PayloadEmpty, PayloadHtml}

\* the raw bytes of the decoder's documented example, "1,234\t09:30\r\n"
ExampleRaw ==
    <<"1", ",", "2", "3", "4", "\t", "0", "9", ":", "3", "0", "\r", "\n">>

ByteAlphabet == {",", "\t", "\r", "\n", "1"}

\* every byte string over the alphabet of at most n bytes
BytesUpTo(n) == UNION {[1..k -> ByteAlphabet] : k \in 0..n}

SymbolAlphabet == {"a", "A"}

\* every non-empty symbol over the alphabet of at most n characters
SymbolsUpTo(n) == UNION {[1..k -> SymbolAlphabet] : k \in 1..n}

\* request URLs of 9 and of 10 characters
BaseUrls == {"http://a/", "http://a/b"}

----------------------------------------------------------------------------
(* Spec: the life of one query, base or minute, with repeated fetches and  *)
(* table requests.                                                         *)

Next ==
    \/ Tick
    \/ QueryBaseInit("q1", AAPL)
    \/ \E url \in BaseUrls : SetRequestUrl("q1", url)
    \/ \E st, en \in {T0930, T1000} : MinuteQueryInit("q1", AAPL, st, en)
    \/ DownloadDataCall("q1")
    \/ CheckUrl("q1")
    \/ CheckRoot("q1")
    \/ MakeDirs("q1")
    \/ SetDownloadedFile("q1")
    \/ UrlOpen("q1")
    \/ OpenOutFile("q1")
    \/ ReadResponse("q1", Payloads)
    \/ DecodeResponse("q1")
    \/ WriteOutFile("q1")
    \/ CheckSaved("q1")
    \/ SetSaved("q1")
    \/ GetPandasDataframe("q1")

Spec == Init /\ [][Next]_vars

----------------------------------------------------------------------------
(* SpecConc: two minute queries built concurrently, one per thread, their  *)
(* steps interleaved in every order.                                       *)

NextConc ==
    \/ Tick
    \/ \E q \in Queries, sym \in {AAPL, MSFT} : MinuteQueryInit(q, sym, T0930, T1000)
    \/ \E q \in Queries : CheckUrl(q)
    \/ \E q \in Queries : CheckRoot(q)
    \/ \E q \in Queries : MakeDirs(q)
    \/ \E q \in Queries : SetDownloadedFile(q)
    \/ \E q \in Queries : UrlOpen(q)
    \/ \E q \in Queries : OpenOutFile(q)
    \/ \E q \in Queries : ReadResponse(q, Payloads)
    \/ \E q \in Queries : DecodeResponse(q)
    \/ \E q \in Queries : WriteOutFile(q)
    \/ \E q \in Queries : CheckSaved(q)
    \/ \E q \in Queries : SetSaved(q)

SpecConc == Init /\ [][NextConc]_vars

----------------------------------------------------------------------------
(* SpecBuild: a minute query built from every symbol and every pair of     *)
(* times of the input sets, then a second one built from any symbol and    *)
(* the same two times.                                                     *)

BuildTimes == {T0930, T0930s, T1000}

Built(q) == obj[q].class # "none" /\ call[q].pc = "idle"

NextBuild ==
    \/ Tick
    \/ \E sym \in SymbolsUpTo(MaxSymLen), st, en \in BuildTimes :
          MinuteQueryInit("q1", sym, st, en)
    \/ /\ Built("q1")
       /\ \E sym \in SymbolsUpTo(MaxSymLen) :
             MinuteQueryInit("q2", sym, obs["q1"].args[1].start, obs["q1"].args[1].end)
    \/ \E q \in Queries : CheckUrl(q)
    \/ \E q \in Queries : CheckRoot(q)
    \/ \E q \in Queries : MakeDirs(q)
    \/ \E q \in Queries : SetDownloadedFile(q)
    \/ \E q \in Queries : UrlOpen(q)
    \/ \E q \in Queries : OpenOutFile(q)
    \/ \E q \in Queries : ReadResponse(q, {PayloadTable})
    \/ \E q \in Queries : DecodeResponse(q)
    \/ \E q \in Queries : WriteOutFile(q)
    \/ \E q \in Queries : CheckSaved(q)
    \/ \E q \in Queries : SetSaved(q)

SpecBuild == Init /\ [][NextBuild]_vars

----------------------------------------------------------------------------
(* SpecDecode: one query whose response is any byte string of the          *)
(* alphabet up to MaxRawLen bytes, or the documented example.              *)

NextDecode ==
    \/ MinuteQueryInit("q1", AAPL, T0930, T1000)
    \/ CheckUrl("q1")
    \/ CheckRoot("q1")
    \/ MakeDirs("q1")
    \/ SetDownloadedFile("q1")
    \/ UrlOpen("q1")
    \/ OpenOutFile("q1")
    \/ ReadResponse("q1", BytesUpTo(MaxRawLen) \cup {ExampleRaw})
    \/ DecodeResponse("q1")
    \/ WriteOutFile("q1")
    \/ CheckSaved("q1")
    \/ SetSaved("q1")

SpecDecode == Init /\ [][NextDecode]_vars

----------------------------------------------------------------------------
(* Properties of building a query (checked under SpecBuild).               *)

\* |seconds(a) - seconds(b)|, with seconds(t) = 3600 hour + 60 minute + second
AbsSeconds(a, b) ==
    LET x == 3600 * a.hour + 60 * a.minute + a.second
        y == 3600 * b.hour + 60 * b.minute + b.second
    IN  IF x >= y THEN x - y ELSE y - x

\* the ways the fetch itself fails: the network, or the disk at the write
FetchFaults == {"URLError", "ConnectionError", "OSError"}

\* C1: a build whose two times differ in seconds passes the range check
\* (the times are stored, in either order) and, once it has returned, has
\* succeeded unless the fetch itself failed; a build with start = end fails
\* with the range error before any fetch.
C1_RangeValidation ==
    \A q \in Queries :
        obs[q].args # <<>> =>
            LET a == obs[q].args[1]
            IN  /\ AbsSeconds(a.start, a.end) > 0 =>
                      /\ obs[q].err # "RuntimeError"
                      /\ obj[q].start_time = <<a.start>>
                      /\ obj[q].end_time = <<a.end>>
                      /\ obs[q].fetches = 1
                      /\ (Built(q) /\ obs[q].err \notin FetchFaults) =>
                             (obs[q].err = "none" /\ obj[q].file_saved)
                /\ a.start = a.end =>
                      /\ obs[q].err = "RuntimeError"
                      /\ call[q].pc = "idle"
                      /\ obs[q].fetches = 0
                      /\ ~ obj[q].file_saved

\* C1 witness: a build with end earlier than start has returned with its
\* data fetched.
C1_Witness ==
    \E q \in Queries :
        /\ obs[q].args # <<>>
        /\ obs[q].args[1].start = T1000
        /\ obs[q].args[1].end = T0930s
        /\ Built(q)
        /\ obs[q].err = "none"
        /\ obj[q].file_saved

\* the two cases of each letter of the symbol alphabet and of the inputs
CasePairs ==
    {<<"a", "A">>, <<"p", "P">>, <<"l", "L">>, <<"m", "M">>, <<"s", "S">>,
     <<"f", "F">>, <<"t", "T">>}

SameUpToCase(x, y) ==
    /\ Len(x) = Len(y)
    /\ \A i \in 1..Len(x) :
          x[i] = y[i] \/ <<x[i], y[i]>> \in CasePairs \/ <<y[i], x[i]>> \in CasePairs

\* both queries built past the range check, from the same two times and
\* from symbols equal up to letter case
SameBuildInputs ==
    /\ obs["q1"].args # <<>>
    /\ obs["q2"].args # <<>>
    /\ obs["q1"].args[1].start = obs["q2"].args[1].start
    /\ obs["q1"].args[1].end = obs["q2"].args[1].end
    /\ SameUpToCase(obs["q1"].args[1].symbol, obs["q2"].args[1].symbol)

\* C4 as stated: two builds from the same times and from symbols equal up
\* to letter case have the same request URL and the same output identifier.
C4_AsStated ==
    SameBuildInputs =>
        /\ obj["q1"].request_url = obj["q2"].request_url
        /\ obj["q1"].output_filename = obj["q2"].output_filename

\* C4, amended: such builds have the same request URL, and the same output
\* identifier when both were built on the same calendar date.
C4_SameUrlAndSameDayIdentifier ==
    SameBuildInputs =>
        /\ obj["q1"].request_url = obj["q2"].request_url
        /\ (DayOf(obs["q1"].args[1].at) = DayOf(obs["q2"].args[1].at)) =>
               obj["q1"].output_filename = obj["q2"].output_filename

\* C4 witness: two builds on one day from symbols that differ in case only,
\* both past the range check.
C4_Witness ==
    /\ SameBuildInputs
    /\ obs["q1"].args[1].symbol = <<"a", "A">>
    /\ obs["q2"].args[1].symbol = <<"A", "a">>
    /\ DayOf(obs["q1"].args[1].at) = DayOf(obs["q2"].args[1].at)
    /\ obs["q1"].args[1].at # obs["q2"].args[1].at
    /\ obj["q1"].request_url # ""
    /\ obj["q2"].output_filename # ""

----------------------------------------------------------------------------
(* Properties of the decoder (checked under SpecDecode).                   *)

\* the query holds the decoding of the bytes it last read
Decoded(q) ==
    /\ obs[q].raw # <<>>
    /\ obj[q].file_buffer # <<>>
    /\ call[q].pc # "L135"

Has(s, c) == \E i \in 1..Len(s) : s[i] = c

\* what the three steps amount to, byte by byte: commas go; of what is
\* left, a tab right before a carriage return goes, any other tab becomes a
\* comma, every other byte stays
ByteByByte(raw) ==
    LET IsNotComma(c) == c # ","
        cs == SelectSeq(raw, IsNotComma)
        Kept(i) == ~ (cs[i] = "\t" /\ i < Len(cs) /\ cs[i + 1] = "\r")
        idx == SelectSeq([i \in 1..Len(cs) |-> i], Kept)
    IN  [k \in 1..Len(idx) |-> IF cs[idx[k]] = "\t" THEN "," ELSE cs[idx[k]]]

\* "1234,09:30\r\n"
ExampleDecoded ==
    <<"1", "2", "3", "4", ",", "0", "9", ":", "3", "0", "\r", "\n">>

\* C2: the retained bytes are the raw bytes with every comma removed, then
\* every tab + carriage return replaced by a carriage return, then every
\* remaining tab replaced by a comma; the documented example decodes as
\* documented, and no decoded output contains a tab.
C2_DecoderThreeSteps ==
    \A q \in Queries :
        Decoded(q) =>
            LET raw == obs[q].raw[1]
                out == obj[q].file_buffer[1].data
            IN  /\ out = ByteByByte(raw)
                /\ ~ Has(out, "\t")
                /\ raw = ExampleRaw => out = ExampleDecoded

\* C2 witness: the documented example has been decoded.
C2_Witness ==
    \E q \in Queries :
        /\ Decoded(q)
        /\ obs[q].raw[1] = ExampleRaw
        /\ obj[q].file_buffer[1].data = ExampleDecoded

Digits == {"0", "1", "2", "3", "4", "5", "6", "7", "8", "9"}

\* a comma embedded in a number as a thousands separator: three digits
\* follow it
ThousandsComma(s, i) ==
    /\ s[i] = ","
    /\ i + 3 <= Len(s)
    /\ \A k \in 1..3 : s[i + k] \in Digits

\* a comma that delimits two non-empty fields of one line
DelimiterComma(s, i) ==
    /\ s[i] = ","
    /\ 1 < i
    /\ i < Len(s)
    /\ s[i - 1] \notin {",", "\r", "\n"}
    /\ s[i + 1] \notin {",", "\r", "\n"}
    /\ ~ ThousandsComma(s, i)

\* clean CSV: no tabs, and no comma other than a field delimiter
CleanCsv(s) ==
    /\ ~ Has(s, "\t")
    /\ \A i \in 1..Len(s) : s[i] = "," => DelimiterComma(s, i)

\* C3 as stated: decoding clean CSV, whose only commas are field
\* delimiters, returns it unchanged.
C3_AsStated ==
    \A q \in Queries :
        (Decoded(q) /\ CleanCsv(obs[q].raw[1])) =>
            obj[q].file_buffer[1].data = obs[q].raw[1]

\* C3, amended: decoding input with no tabs and no commas at all returns it
\* unchanged, so decoding the decoder's own output yields the same bytes
\* again whenever that output holds no comma.
C3_IdempotentWithoutCommas ==
    \A q \in Queries :
        Decoded(q) =>
            LET raw == obs[q].raw[1]
                out == obj[q].file_buffer[1].data
            IN  /\ (~ Has(raw, "\t") /\ ~ Has(raw, ",")) => out = raw
                /\ ~ Has(out, ",") => Decode(out) = out

\* C3 witness: input of several lines with no tab and no comma has been
\* decoded.
C3_Witness ==
    \E q \in Queries :
        /\ Decoded(q)
        /\ obs[q].raw[1] = <<"1", "\r", "\n", "1">>
        /\ obj[q].file_buffer[1].data = obs[q].raw[1]

----------------------------------------------------------------------------
(* Properties of one query's life (checked under Spec).                    *)

\* C5: the fetched flag is set exactly when some download_data call has
\* run to its end, and every table request made while none has fails with
\* the not-fetched error and yields no table.
C5_NotFetchedGate ==
    \A q \in Queries :
        /\ obj[q].file_saved <=> obs[q].completed > 0
        /\ (obs[q].completed = 0 /\ obs[q].gets > 0) =>
               (obs[q].getErr = "RuntimeError" /\ obs[q].table = <<>>)

\* C5 witness: a table was requested of a query whose only fetch failed
\* after the bytes were decoded into the buffer.
C5_Witness ==
    \E q \in Queries :
        /\ obs[q].completed = 0
        /\ obs[q].err = "OSError"
        /\ obj[q].file_buffer # <<>>
        /\ obs[q].gets > 0
        /\ obs[q].getErr = "RuntimeError"

\* C6 as stated: after a fetch attempt a query has either fully succeeded
\* (the file holds the decoded bytes, the buffer holds the same bytes, the
\* fetched flag is set) or fully failed (the destination is as it was
\* before the attempt, and a set fetched flag still matches the disk).
C6_NoPartialResult ==
    \A q \in Queries :
        (call[q].pc = "idle" /\ obs[q].fetches > 0) =>
            IF obs[q].err = "none"
            THEN /\ obj[q].file_saved
                 /\ obj[q].file_buffer # <<>>
                 /\ obj[q].file_buffer[1].data = Decode(obs[q].raw[1])
                 /\ FileAt(obj[q].downloaded_file) = <<Decode(obs[q].raw[1])>>
            ELSE /\ obs[q].preFile # <<>> =>
                        FileAt(obj[q].downloaded_file) = obs[q].preFile[1]
                 /\ obj[q].file_saved =>
                        FileAt(obj[q].downloaded_file) = <<obj[q].file_buffer[1].data>>

\* C8: a download_data call on a request URL of fewer than 10 characters
\* ends at the length check with the malformed-URL error, and no network
\* call is made on the way.
C8_ShortUrlRejectedFirst ==
    [][\A q \in Queries :
          ( /\ call[q].pc = "L119"
            /\ Len(obj[q].request_url) < 10
            /\ call'[q] # call[q] ) =>
              /\ call'[q].pc = "idle"
              /\ obs'[q].err = "ValueError"
              /\ obs'[q].netCalls = obs[q].netCalls
              /\ disk' = disk]_vars

\* C8 witness: a call on a 9-character URL was rejected with no network
\* call made.
C8_Witness ==
    \E q \in Queries :
        /\ Len(obj[q].request_url) = 9
        /\ obs[q].fetches > 0
        /\ call[q].pc = "idle"
        /\ obs[q].err = "ValueError"
        /\ obs[q].netCalls = 0

\* the data rows of the decoded payload a query retains, in endpoint order
EndpointRows(q) == Tail(Records(obj[q].file_buffer[1].data))

\* C9: a table that get_pandas_dataframe returns holds the rows of the
\* decoded payload in exactly the reverse of the endpoint's order, none
\* dropped, duplicated or altered.
C9_RowsReversed ==
    \A q \in Queries :
        obs[q].table # <<>> =>
            LET rows == EndpointRows(q)
                tab == obs[q].table[1]
            IN  /\ Len(tab) = Len(rows)
                /\ \A i \in 1..Len(rows) : tab[i] = rows[Len(rows) + 1 - i]
                /\ obs[q].raw[1] = PayloadTable =>
                       tab = << <<<<"1">>, <<"6">>>>,
                                <<<<"2">>, <<"5">>>>,
                                <<<<"3">>, <<"1", "2">>>> >>

\* C9 witness: a table of three rows was returned.
C9_Witness ==
    \E q \in Queries :
        /\ obs[q].table # <<>>
        /\ Len(obs[q].table[1]) = 3
        /\ obs[q].table[1][1] # obs[q].table[1][3]

\* C10 as stated: on a fetched query, once a table request has returned a
\* table, every further request with no fetch in between returns that
\* same table.
C10_RepeatableTable ==
    \A q \in Queries :
        (obj[q].file_saved /\ obs[q].firstTable # <<>>) =>
            /\ obs[q].getErr = "none"
            /\ obs[q].table = obs[q].firstTable

----------------------------------------------------------------------------
(* Concurrent queries (checked under SpecConc).                            *)

\* the destination path of a minute query
DestinationPath(q) == DownloadedFile(obj[q], now)

\* C7 as stated: when the queries' destination paths differ, no query is
\* failed by another (a query fails only by its own network or disk
\* fault), and a query that returned has its own decoded bytes in its own
\* file and buffer.
C7_ConcurrentQueriesSafe ==
    \A q \in Queries :
        ( /\ \A r \in Queries : obj[r].class = "MinuteQuery"
          /\ \A p \in Queries \ {q} : DestinationPath(p) # DestinationPath(q)
          /\ call[q].pc = "idle" ) =>
            /\ obs[q].err \in {"none"} \cup FetchFaults
            /\ obs[q].err = "none" =>
                  /\ obj[q].file_buffer[1].data = Decode(obs[q].raw[1])
                  /\ FileAt(obj[q].downloaded_file) = <<Decode(obs[q].raw[1])>>

============================================================================
